---- MODULE Spec2Model ----
(***************************************************************************)
(* A model of timewarrior-rs (src/src/data.rs): the Range algebra, the     *)
(* line parser, and the Work loader.                                       *)
(*                                                                         *)
(* Time is counted in ticks of 1/SEC second since the epoch, so that       *)
(* sub-second instants (Utc::now(), the midpoint of a split) exist.        *)
(* Option<T> and Result<T> are sequences: <<>> is None / Err, <<x>> is     *)
(* Some(x) / Ok(x).                                                        *)
(***************************************************************************)
EXTENDS Integers, Sequences, FiniteSets, TLC

VARIABLES
    now,      \* the clock read by Utc::now(), in ticks
    offset,   \* the local time zone's offset from UTC, in ticks
    self,     \* the Range the Range operations are called on
    res,      \* what the last operation called returned
    line,     \* the text handed to the parsers, a sequence of symbols
    dir,      \* the database directory, the files in read_dir order
    work      \* what the last load returned

vars == <<now, offset, self, res, line, dir, work>>

----------------------------------------------------------------------------
(* Bounds of the model *)

MaxT == 4        \* instants lie 0..MaxT ticks after a midnight
MaxDays == 1     \* instants lie on the days 0..MaxDays
MaxOff == 2      \* local offsets lie within MaxOff hours of UTC
MaxTagLen == 5   \* the text after " # " has at most MaxTagLen symbols
MaxLines == 3    \* the files of a directory hold at most MaxLines lines in all
MaxDate == 487   \* clock readings lie on MaxDate days from 1971-12-01 on
MaxWalk == 6     \* last_month is followed for at most MaxWalk jumps

(* Program constants *)

SEC == 2                     \* ticks in Duration::seconds(1)
HOUR == 3600 * SEC
DAY == 86400 * SEC           \* ticks in Duration::days(1)

None == <<>>
Some(x) == <<x>>
Err == <<>>
Ok(x) == <<x>>
IsOk(r) == r # <<>>
IsSome(r) == r # <<>>

\* match r { Ok(x) => F(x), Err(_) => e }
Match(r, F(_), e) == IF IsOk(r) THEN F(r[1]) ELSE e

\* F(r?), the error of r propagated
AndThen(r, F(_)) == Match(r, F, Err)

Instants == {d * DAY + s : d \in 0..MaxDays, s \in 0..MaxT}
OptInstants == {None} \cup {Some(t) : t \in Instants}

Max(a, b) == IF a < b THEN b ELSE a

----------------------------------------------------------------------------
(* Range *)

MkRange(from, to) == [from |-> from, to |-> to]

\* Range::new with the comparison relaxed from <= to < on the left operand
Range_new_NoMinimum(from, to) ==
    IF to = None THEN Ok(MkRange(from, to))
    ELSE IF from <= to[1] THEN Ok(MkRange(from, to))
    ELSE Err

Range_new(from, to) ==
    IF to = None THEN Ok(MkRange(from, to))
    ELSE IF from + SEC <= to[1] THEN Ok(MkRange(from, to))
    ELSE Err

OkOrNone(r) == IF IsOk(r) THEN Some(r[1]) ELSE None

\* A DateTime<Local>: the instant and the zone's offset from UTC
LocalDateTime(utc, off) == [utc |-> utc, off |-> off]

\* DateTime::naive_utc: the date and time of the instant in UTC
naive_utc(d) == d.utc

\* NaiveDateTime::date, as the number of the day since the epoch
NaiveDateTime_date(naive) == naive \div DAY

\* NaiveDate::and_hms
and_hms(day, h, m, s) == day * DAY + h * HOUR + m * 60 * SEC + s * SEC

\* Utc.from_local_datetime: in the Utc zone a naive time is that instant,
\* always LocalResult::Single
Utc_from_local_datetime(naive) == naive

\* Range::day
Range_day(day) ==
    LET morning == Utc_from_local_datetime(and_hms(NaiveDateTime_date(naive_utc(day)), 0, 0, 0))
        evening == Utc_from_local_datetime(and_hms(NaiveDateTime_date(naive_utc(day)), 23, 59, 59))
    IN  Range_new(morning, Some(evening))

\* Local::today(): the calendar day of the clock reading n in the zone
Local_today(n, off) == (n + off) \div DAY

\* Date<Local>::and_hms: the instant of that wall-clock time in the zone
Local_and_hms(day, off, h, m, s) ==
    LocalDateTime(and_hms(day, h, m, s) - off, off)

\* Range::today
Range_today(n, off) == Range_day(Local_and_hms(Local_today(n, off), off, 0, 0, 0))

\* Range::yesterday
Range_yesterday(n, off) ==
    Range_day(Local_and_hms(Local_today(n, off) - 1, off, 0, 0, 0))

\* Datelike: the proleptic Gregorian calendar over day numbers since the
\* epoch, counted in 400-year eras of years that begin on 1 March
DayOfEra(date) == (date + 719468) % 146097
EraOf(date) == (date + 719468) \div 146097
YearOfEra(doe) == (doe - doe \div 1460 + doe \div 36524 - doe \div 146096) \div 365
DayOfYear(doe) ==
    doe - (365 * YearOfEra(doe) + YearOfEra(doe) \div 4 - YearOfEra(doe) \div 100)
MonthFromMarch(doy) == (5 * doy + 2) \div 153

\* Datelike::day of a date: the day of the month, from 1
Datelike_day(date) ==
    DayOfYear(DayOfEra(date))
        - (153 * MonthFromMarch(DayOfYear(DayOfEra(date))) + 2) \div 5 + 1

\* Datelike::month of a date: 1 to 12
Datelike_month(date) ==
    IF MonthFromMarch(DayOfYear(DayOfEra(date))) < 10
    THEN MonthFromMarch(DayOfYear(DayOfEra(date))) + 3
    ELSE MonthFromMarch(DayOfYear(DayOfEra(date))) - 9

\* Datelike::year of a date
Datelike_year(date) ==
    YearOfEra(DayOfEra(date)) + 400 * EraOf(date)
        + (IF Datelike_month(date) <= 2 THEN 1 ELSE 0)

\* DateTime<Local>::day: the day of the month of the wall-clock date
DateTime_day(d) == Datelike_day((d.utc + d.off) \div DAY)

\* DateTime<Local> + Duration::days(k)
PlusDays(d, k) == LocalDateTime(d.utc + k * DAY, d.off)

RECURSIVE WalkBack(_)
\* Range::month, first loop: back one day at a time to a day 1
WalkBack(current) ==
    IF DateTime_day(current) # 1 THEN WalkBack(PlusDays(current, -1)) ELSE current

RECURSIVE WalkForward(_)
\* Range::month, second loop: forward one day at a time to a day 1
WalkForward(current) ==
    IF DateTime_day(current) # 1 THEN WalkForward(PlusDays(current, 1)) ELSE current

\* Range::month
Range_month(day) ==
    LET first == Utc_from_local_datetime(
                     and_hms(NaiveDateTime_date(naive_utc(WalkBack(day))), 0, 0, 0))
        last == Utc_from_local_datetime(
                    and_hms(NaiveDateTime_date(naive_utc(
                        PlusDays(WalkForward(PlusDays(WalkBack(day), 26)), -1))),
                        23, 59, 59))
    IN  Range_new(first, Some(last))

\* Range::current_month
Range_current_month(n, off) ==
    Range_month(Local_and_hms(Local_today(n, off), off, 0, 0, 0))

is_open(r) == r.to = None

\* Range::intersection with the one-open branch keeping self.from
Range_intersection_SelfFrom(a, b) ==
    IF a.to = None /\ b.to = None
    THEN OkOrNone(Range_new(Max(a.from, b.from), None))
    ELSE IF a.to = None
    THEN OkOrNone(Range_new(a.from, b.to))
    ELSE IF b.from > a.to[1] THEN None
    ELSE IF b.to = None
    THEN OkOrNone(Range_new(Max(a.from, b.from), a.to))
    ELSE IF a.from > b.to[1] THEN None
    ELSE OkOrNone(Range_new(IF a.from > b.from THEN a.from ELSE b.from,
                            IF a.to[1] > b.to[1] THEN b.to ELSE a.to))

\* Range::intersection of two closed Ranges ending at self.to, not the earlier end
Range_intersection_SelfTo(a, b) ==
    IF a.to = None /\ b.to = None
    THEN OkOrNone(Range_new(IF a.from < b.from THEN b.from ELSE a.from, None))
    ELSE IF a.to = None
    THEN OkOrNone(Range_new(IF a.from < b.from THEN b.from ELSE a.from, b.to))
    ELSE IF b.from > a.to[1] THEN None
    ELSE IF b.to = None
    THEN OkOrNone(Range_new(IF a.from < b.from THEN b.from ELSE a.from, a.to))
    ELSE IF a.from > b.to[1] THEN None
    ELSE OkOrNone(Range_new(IF a.from > b.from THEN a.from ELSE b.from, a.to))

Range_intersection(a, b) ==
    IF a.to = None /\ b.to = None
    THEN OkOrNone(Range_new(IF a.from < b.from THEN b.from ELSE a.from, None))
    ELSE IF a.to = None
    THEN OkOrNone(Range_new(IF a.from < b.from THEN b.from ELSE a.from, b.to))
    ELSE IF b.from > a.to[1] THEN None
    ELSE IF b.to = None
    THEN OkOrNone(Range_new(IF a.from < b.from THEN b.from ELSE a.from, a.to))
    ELSE IF a.from > b.to[1] THEN None
    ELSE OkOrNone(Range_new(IF a.from > b.from THEN a.from ELSE b.from,
                            IF a.to[1] > b.to[1] THEN b.to ELSE a.to))

\* Range::duration, n being the value Utc::now() returns
Range_duration(r, n) == (IF r.to = None THEN n ELSE r.to[1]) - r.from

RECURSIVE DaysFrom(_, _)
DaysFrom(current, end) ==
    IF current <= end THEN <<current>> \o DaysFrom(current + DAY, end) ELSE <<>>

\* Range::days, n being the value Utc::now() returns
Range_days(r, n) == DaysFrom(r.from, IF r.to = None THEN n ELSE r.to[1])

\* Range::split_at, n being the value Utc::now() returns
Range_split_at(r, date, n) ==
    LET to == IF r.to = None THEN n ELSE r.to[1]
        duration_from == date - r.from
        duration_to == to - date
        lo == Range_new(r.from, Some(r.from + duration_from))
        hi == Range_new(to - duration_to, r.to)
    IN  IF ~IsOk(lo) THEN Err
        ELSE IF ~IsOk(hi) THEN Err
        ELSE Ok(<<lo[1], hi[1]>>)

\* Range::split with the midpoint rounded up instead of truncated
Range_split_RoundUp(r, n, n2) ==
    LET to == IF r.to = None THEN n ELSE r.to[1]
        duration == ((to - r.from) + 1) \div 2
    IN  Range_split_at(r, r.from + duration, n2)

\* Duration / 2: chrono halves the seconds exactly and the (never negative)
\* sub-second part rounding down, which is the floor of the half
Half(d) == d \div 2

\* Range::split; n and n2 are the values of the two Utc::now() calls, the
\* one in split and the later one in split_at
Range_split(r, n, n2) ==
    LET to == IF r.to = None THEN n ELSE r.to[1]
        duration == Half(to - r.from)
    IN  Range_split_at(r, r.from + duration, n2)

\* Every Range that Range::new builds from the instants of the model
Ranges == {Range_new(f, t)[1] : <<f, t>> \in
              {p \in Instants \X OptInstants : IsOk(Range_new(p[1], p[2]))}}

----------------------------------------------------------------------------
(* The parsers.  A text is a sequence of symbols.  A symbol is one         *)
(* character, or one of the words below standing for its characters: a     *)
(* timestamp in the form %Y%m%dT%H%M%SZ, a period keyword, "inc".          *)

SP == " "
QUOTE == "\""

\* 19700101T000000Z, 19700101T000001Z, 19700101T000002Z, 19700102T000000Z
DateTimes == {"D0", "D1", "D2", "D3"}

\* a word of the same shape that names no date, such as 19701301T000000Z
BadDateTime == "X"

\* NaiveDateTime::parse_from_str of a well-formed timestamp, in ticks
DateValue(w) ==
    CASE w = "D0" -> 0
      [] w = "D1" -> SEC
      [] w = "D2" -> 2 * SEC
      [] w = "D3" -> DAY

\* char::is_alphanumeric
IsAlphanumeric(c) == c \notin {SP, QUOTE, "#", "-", ":"}

StartsWith(text, prefix) ==
    /\ Len(text) >= Len(prefix)
    /\ SubSeq(text, 1, Len(prefix)) = prefix

Drop(text, n) == SubSeq(text, n + 1, Len(text))

\* the length of the longest prefix of text whose symbols are all in Keep
RECURSIVE RunLen(_, _)
RunLen(text, Keep) ==
    IF text # <<>> /\ Head(text) \in Keep THEN 1 + RunLen(Tail(text), Keep) ELSE 0

\* the symbols of text, as a set
Symbols(text) == {text[i] : i \in 1..Len(text)}

\* A parser returns Err, or Ok of the rest of the input and the value
Parsed(rest, value) == Ok([rest |-> rest, value |-> value])

\* delimited(char(quote), take_while1(|c| c != quote), char(quote))
QuotedTag(text) ==
    IF text = <<>> \/ Head(text) # QUOTE THEN Err
    ELSE LET n == RunLen(Tail(text), Symbols(text) \ {QUOTE})
         IN  IF n = 0 THEN Err
             ELSE IF Len(text) < n + 2 THEN Err
             ELSE Parsed(Drop(text, n + 2), SubSeq(text, 2, n + 1))

\* take_while1(|c| c != quote && c != sep)
BareTag(text) ==
    LET n == RunLen(text, Symbols(text) \ {QUOTE, SP})
    IN  IF n = 0 THEN Err ELSE Parsed(Drop(text, n), SubSeq(text, 1, n))

\* alt((delimited(..), take_while1(..)))
Tag(text) == Match(QuotedTag(text), LAMBDA t : Ok(t), BareTag(text))

\* the loop of separated_list0: a separator and an element, or stop before
\* the separator
RECURSIVE MoreTags(_, _)
MoreTags(text, tags) ==
    IF text = <<>> \/ Head(text) # SP THEN Parsed(text, tags)
    ELSE Match(Tag(Tail(text)),
               LAMBDA t : MoreTags(t.rest, Append(tags, t.value)),
               Parsed(text, tags))

parse_tags(text) ==
    Match(Tag(text),
          LAMBDA first : MoreTags(first.rest, <<first.value>>),
          Parsed(text, <<>>))

parse_date(input) ==
    LET n == RunLen(input, Symbols(input) \ {SP})
    IN  IF n = 0 THEN Err
        ELSE IF n = 1 /\ Head(input) \in DateTimes
        THEN Parsed(Drop(input, 1), DateValue(Head(input)))
        ELSE Err

\* Range::from_period_str, for the keywords of the calendar helpers above
from_period_str(period, n, off) ==
    IF period = <<"today">> THEN Range_today(n, off)
    ELSE IF period = <<"yesterday">> THEN Range_yesterday(n, off)
    ELSE Err

\* map_res(separated_pair(parse_date, tag(" - "), parse_date), Range::new)
ClosedRange(input) ==
    AndThen(parse_date(input), LAMBDA from :
        IF ~StartsWith(from.rest, <<SP, "-", SP>>) THEN Err
        ELSE AndThen(parse_date(Drop(from.rest, 3)), LAMBDA to :
                AndThen(Range_new(from.value, Some(to.value)), LAMBDA r :
                    Parsed(to.rest, r))))

\* map_res(parse_date, |r| Range::new(r, None))
OpenRange(input) ==
    AndThen(parse_date(input), LAMBDA from :
        AndThen(Range_new(from.value, None), LAMBDA r : Parsed(from.rest, r)))

\* preceded(char(':'), map_res(alphanumeric0, Range::from_period_str))
PeriodRange(input, n, off) ==
    IF input = <<>> \/ Head(input) # ":" THEN Err
    ELSE LET k == RunLen(Tail(input), {c \in Symbols(input) : IsAlphanumeric(c)})
         IN  AndThen(from_period_str(SubSeq(input, 2, k + 1), n, off),
                     LAMBDA r : Parsed(Drop(input, k + 1), r))

parse_range(input, n, off) ==
    Match(ClosedRange(input), LAMBDA closed : Ok(closed),
          Match(OpenRange(input), LAMBDA open : Ok(open),
                PeriodRange(input, n, off)))

TimeEntry(range, tags, id) == [range |-> range, tags |-> tags, id |-> id]

parse_entry(input, n, off) ==
    IF ~StartsWith(input, <<"inc", SP>>) THEN Err
    ELSE AndThen(parse_range(Drop(input, 2), n, off), LAMBDA r :
            IF ~StartsWith(r.rest, <<SP, "#", SP>>) THEN Err
            ELSE AndThen(parse_tags(Drop(r.rest, 3)), LAMBDA t :
                    Parsed(t.rest, TimeEntry(r.value, t.value, 0))))

\* <TimeEntry as FromStr>::from_str
TimeEntry_from_str(s, n, off) ==
    AndThen(parse_entry(s, n, off), LAMBDA e : Ok(e.value))

\* <Range as FromStr>::from_str
Range_from_str(s, n, off) ==
    AndThen(parse_range(s, n, off), LAMBDA r :
        IF r.rest # <<>> THEN Err
        ELSE IF r.value.to = None /\ ~(n - r.value.from >= SEC) THEN Err
        ELSE Ok(r.value))

----------------------------------------------------------------------------
(* Work: the loader.  A directory is the sequence of its files in the      *)
(* order read_dir yields them; a file is its name and its lines.           *)

File(name, lines) == [name |-> name, lines |-> lines]

FileNames == {"2022-06.data", "2022-07.data", "notes.txt"}

\* file_re = ^(?P<y>\d{4})-(?P<m>\d{2}).data$ on the names above
file_re_matches(name) == name \in {"2022-06.data", "2022-07.data"}

\* Work::load_entries_from_file on the lines not yet read
RECURSIVE load_entries_from_lines(_, _, _, _)
load_entries_from_lines(lines, entries, n, off) ==
    IF lines = <<>> THEN Ok(entries)
    ELSE AndThen(TimeEntry_from_str(Head(lines), n, off), LAMBDA e :
            load_entries_from_lines(Tail(lines), Append(entries, e), n, off))

load_entries_from_file(file, n, off) ==
    load_entries_from_lines(file.lines, <<>>, n, off)

\* the loop over read_dir of load_range on the files not yet visited; a
\* name file_re does not match yields no capture and appends nothing
RECURSIVE load_files(_, _, _, _)
load_files(files, entries, n, off) ==
    IF files = <<>> THEN Ok(entries)
    ELSE AndThen(IF file_re_matches(Head(files).name)
                 THEN load_entries_from_file(Head(files), n, off)
                 ELSE Ok(<<>>),
                 LAMBDA es : load_files(Tail(files), entries \o es, n, off))

\* the comparator of entries.sort_by
Compare(a, b) ==
    IF a.range.from > b.range.from THEN "Less"
    ELSE IF a.range.from < b.range.from THEN "Greater"
    ELSE "Equal"

\* e placed into a sorted sequence behind every element not Greater than it
RECURSIVE Insert(_, _)
Insert(e, sorted) ==
    IF sorted = <<>> THEN <<e>>
    ELSE IF Compare(Head(sorted), e) = "Greater" THEN <<e>> \o sorted
    ELSE <<Head(sorted)>> \o Insert(e, Tail(sorted))

\* Vec::sort_by, a stable sort: the elements are placed in their order
RECURSIVE SortFrom(_, _)
SortFrom(entries, sorted) ==
    IF entries = <<>> THEN sorted
    ELSE SortFrom(Tail(entries), Insert(Head(entries), sorted))

sort_by(entries) == SortFrom(entries, <<>>)

\* the loop that numbers the entries from 1
AssignIds(entries) ==
    [i \in 1..Len(entries) |-> [entries[i] EXCEPT !.id = i]]

Retained(e, r) == IsSome(Range_intersection(e.range, r))

Filter(entries, r) == SelectSeq(entries, LAMBDA e : Retained(e, r))

Work(entries) == [entries |-> entries]

\* Work::load_range with the ids assigned after the filter
load_range_Renumber(d, range, io_ok, n, off) ==
    IF ~io_ok THEN Err
    ELSE AndThen(load_files(d, <<>>, n, off), LAMBDA es :
            IF range # None
            THEN Ok(Work(AssignIds(Filter(sort_by(es), range[1]))))
            ELSE Ok(Work(AssignIds(sort_by(es)))))

\* Work::load_range with the entries left in file order
load_range_NoSort(d, range, io_ok, n, off) ==
    IF ~io_ok THEN Err
    ELSE AndThen(load_files(d, <<>>, n, off), LAMBDA es :
            IF range # None
            THEN Ok(Work(Filter(AssignIds(es), range[1])))
            ELSE Ok(Work(AssignIds(es))))

\* Work::load_range; io_ok is whether read_dir and the reads succeed
load_range(d, range, io_ok, n, off) ==
    IF ~io_ok THEN Err
    ELSE AndThen(load_files(d, <<>>, n, off), LAMBDA es :
            IF range # None
            THEN Ok(Work(Filter(AssignIds(sort_by(es)), range[1])))
            ELSE Ok(Work(AssignIds(sort_by(es)))))

\* Work::load_all
load_all(d, io_ok, n, off) == load_range(d, None, io_ok, n, off)

----------------------------------------------------------------------------
(* The Range operations as actions: a caller builds a Range with          *)
(* Range::new and then calls one operation on it.                          *)

NoRes == [op |-> "none"]

Init ==
    /\ now \in Instants
    /\ offset = 0
    /\ self = MkRange(0, None)
    /\ res = NoRes
    /\ line = <<>>
    /\ dir = <<>>
    /\ work = Err

New ==
    /\ res.op = "none"
    /\ \E from \in Instants, to \in OptInstants :
        LET out == Range_new(from, to)
        IN  /\ res' = [op |-> "new", from |-> from, to |-> to, out |-> out]
            /\ self' = IF IsOk(out) THEN out[1] ELSE self
            /\ UNCHANGED <<now, offset, line, dir, work>>

Built == res.op = "new" /\ IsOk(res.out)

Intersection ==
    /\ Built
    /\ \E other \in Ranges :
        /\ res' = [op |-> "intersection", other |-> other,
                   out |-> Range_intersection(self, other),
                   rev |-> Range_intersection(other, self)]
        /\ UNCHANGED <<now, offset, self, line, dir, work>>

Duration ==
    /\ Built
    /\ res' = [op |-> "duration", out |-> Range_duration(self, now)]
    /\ UNCHANGED <<now, offset, self, line, dir, work>>

Days ==
    /\ Built
    /\ res' = [op |-> "days", out |-> Range_days(self, now)]
    /\ UNCHANGED <<now, offset, self, line, dir, work>>

SplitAt ==
    /\ Built
    /\ \E date \in Instants :
        /\ res' = [op |-> "split_at", date |-> date,
                   out |-> Range_split_at(self, date, now)]
        /\ UNCHANGED <<now, offset, self, line, dir, work>>

\* The clock may advance between the Utc::now() of split and that of split_at;
\* res.now keeps the first reading
Split ==
    /\ Built
    /\ \E n2 \in {n \in Instants : n >= now} :
        /\ res' = [op |-> "split", now |-> now,
                   out |-> Range_split(self, now, n2)]
        /\ now' = n2
        /\ UNCHANGED <<offset, self, line, dir, work>>

Next == New \/ Intersection \/ Duration \/ Days \/ SplitAt \/ Split

Spec == Init /\ [][Next]_vars

----------------------------------------------------------------------------
(* The calendar helpers as actions: the clock and the zone are drawn, then *)
(* one helper is called.                                                   *)

\* Clock readings on the hour, from day 1 on
Hours == {d * DAY + h * HOUR : d \in 1..(MaxDays + 1), h \in 0..23}

Offsets == {h * HOUR : h \in (-MaxOff)..MaxOff}

InitDay ==
    /\ now \in Hours
    /\ offset \in Offsets
    /\ self = MkRange(0, None)
    /\ res = NoRes
    /\ line = <<>>
    /\ dir = <<>>
    /\ work = Err

Day ==
    /\ res.op = "none"
    /\ \E utc \in Hours :
        LET day == LocalDateTime(utc, offset)
        IN  /\ res' = [op |-> "day", day |-> day, out |-> Range_day(day)]
            /\ UNCHANGED <<now, offset, self, line, dir, work>>

Today ==
    /\ res.op = "none"
    /\ res' = [op |-> "today", out |-> Range_today(now, offset)]
    /\ UNCHANGED <<now, offset, self, line, dir, work>>

Yesterday ==
    /\ res.op = "none"
    /\ res' = [op |-> "yesterday", out |-> Range_yesterday(now, offset)]
    /\ UNCHANGED <<now, offset, self, line, dir, work>>

NextDay == Day \/ Today \/ Yesterday

SpecDay == InitDay /\ [][NextDay]_vars

\* The closed Range from local 00:00:00 to local 23:59:59 of the calendar
\* day that instant utc falls on in the zone at offset off
LocalDayOf(utc, off) ==
    LET midnight == ((utc + off) \div DAY) * DAY - off
    IN  MkRange(midnight, Some(midnight + DAY - SEC))

\* C9: Range::day(d) is the interval from local 00:00:00 to local 23:59:59
\* of d's local calendar date, as UTC instants; today() is that of the
\* caller's current local day.
C9_DayIsLocalDay ==
    /\ res.op = "day" => res.out = Ok(LocalDayOf(res.day.utc, res.day.off))
    /\ res.op = "today" => res.out = Ok(LocalDayOf(now, offset))

----------------------------------------------------------------------------
(* The month helpers as actions. month and current_month are one call     *)
(* each; last_month is followed jump by jump, its frame being kept in res.*)

\* Clock readings from 1971-12-01 on: a leap February, a common February,
\* the months of 30 and 31 days, and two Januaries
MonthHours == {0, 12, 23}
MonthClock == {(698 + d) * DAY + h * HOUR : d \in 1..MaxDate, h \in MonthHours}

InitMonth ==
    /\ now \in MonthClock
    /\ offset \in Offsets
    /\ self = MkRange(0, None)
    /\ res = NoRes
    /\ line = <<>>
    /\ dir = <<>>
    /\ work = Err

\* Range::month(&day), day being the instant now in the zone
Month ==
    /\ res.op = "none"
    /\ res' = [op |-> "month", day |-> LocalDateTime(now, offset),
               out |-> Range_month(LocalDateTime(now, offset))]
    /\ UNCHANGED <<now, offset, self, line, dir, work>>

CurrentMonth ==
    /\ res.op = "none"
    /\ res' = [op |-> "current_month", out |-> Range_current_month(now, offset)]
    /\ UNCHANGED <<now, offset, self, line, dir, work>>

\* Range::last_month, entry: current and this_month are set
LastMonthCall ==
    /\ res.op = "none"
    /\ res' = [op |-> "last_month", pc |-> "loop",
               current |-> Local_today(now, offset),
               this_month |-> Datelike_month(Local_today(now, offset)),
               jumps |-> 0, out |-> Err]
    /\ UNCHANGED <<now, offset, self, line, dir, work>>

\* Range::last_month, one turn of the loop
LastMonthJump ==
    /\ res.op = "last_month" /\ res.pc = "loop"
    /\ Datelike_month(res.current) # res.this_month - 1
    /\ res.jumps < MaxWalk
    /\ res' = [res EXCEPT !.current = @ - 15, !.jumps = @ + 1]
    /\ UNCHANGED <<now, offset, self, line, dir, work>>

\* Range::last_month, the loop is left and month() is called
LastMonthReturn ==
    /\ res.op = "last_month" /\ res.pc = "loop"
    /\ Datelike_month(res.current) = res.this_month - 1
    /\ res' = [res EXCEPT !.pc = "done",
                          !.out = Range_month(Local_and_hms(res.current, offset, 0, 0, 0))]
    /\ UNCHANGED <<now, offset, self, line, dir, work>>

NextMonth == Month \/ CurrentMonth \/ LastMonthCall \/ LastMonthJump \/ LastMonthReturn

SpecMonth == InitMonth /\ [][NextMonth]_vars

\* the months counted from year 0, so that consecutive months differ by 1
MonthIndex(date) == 12 * Datelike_year(date) + Datelike_month(date)

\* C12: last_month() walks back to a date in the month just before the
\* current one (December of the year before, in January) and returns from
\* there: the walk never goes past that month, and it ends in it.
C12_LastMonthIsPrecedingMonth ==
    res.op = "last_month" =>
        /\ MonthIndex(res.current) >= MonthIndex(Local_today(now, offset)) - 1
        /\ res.pc = "done" =>
               MonthIndex(res.current) = MonthIndex(Local_today(now, offset)) - 1

\* the first and the last day of the calendar month of a date
MonthFirstDay(date) == date - (Datelike_day(date) - 1)
MonthLastDay(date) ==
    CHOOSE e \in date..(date + 30) :
        /\ Datelike_month(e) = Datelike_month(date)
        /\ Datelike_month(e + 1) # Datelike_month(date)

\* The closed Range from 00:00:00 of day 1 to 23:59:59 of the last day of
\* the month of a date, the wall clock being off ahead of UTC
CalendarMonth(date, off) ==
    MkRange(MonthFirstDay(date) * DAY - off,
            Some((MonthLastDay(date) + 1) * DAY - SEC - off))

\* C13: Range::month(d) is the interval from 00:00:00 of day 1 to 23:59:59
\* of the last day of the month that contains d's date, those times read
\* on the wall clock of the zone or, at the least, as UTC.
C13_MonthIsCalendarMonth ==
    res.op = "month" =>
        \/ res.out = Ok(CalendarMonth((res.day.utc + res.day.off) \div DAY, res.day.off))
        \/ res.out = Ok(CalendarMonth((res.day.utc + res.day.off) \div DAY, 0))

----------------------------------------------------------------------------
(* The parsers as actions: a line is drawn and one parser is called on it. *)

TagSymbols == {"a", SP, QUOTE}

RECURSIVE Texts(_, _)
\* the sequences of at most n symbols of S
Texts(S, n) ==
    IF n = 0 THEN {<<>>}
    ELSE LET shorter == Texts(S, n - 1)
         IN  shorter \cup {Append(t, c) : t \in shorter, c \in S}

RangeTexts ==
    { <<"D0">>, <<"D2">>, <<"D0", SP, "-", SP, "D1">>, <<"D1", SP, "-", SP, "D0">>,
      <<"D0", SP, "-", SP, BadDateTime>>, <<BadDateTime>>, <<"D0", "a">>,
      <<"D0", SP, "-", "D1">>, <<":", "today">>, <<":", "yesterday">>,
      <<":", "a">>, <<":">> }

\* well-formed "inc <range> # " followed by any text, and the deviations
\* from the prefix, the range and the separator
ParseLines ==
    {<<"inc", SP>> \o r \o <<SP, "#", SP>> \o t :
        r \in {<<"D0">>, <<"D0", SP, "-", SP, "D1">>, <<":", "today">>},
        t \in Texts(TagSymbols, MaxTagLen)}
    \cup
    {p \o r \o s \o t :
        p \in {<<"inc", SP>>, <<"inc">>, <<>>},
        r \in RangeTexts,
        s \in {<<SP, "#", SP>>, <<SP, "#">>, <<"#">>, <<>>},
        t \in {<<>>, <<"a">>}}

InitParse ==
    /\ now \in {DateValue(w) : w \in DateTimes}
    /\ offset = 0
    /\ self = MkRange(0, None)
    /\ res = NoRes
    /\ line \in ParseLines
    /\ dir = <<>>
    /\ work = Err

\* line.parse::<TimeEntry>(); res.rest is the input parse_entry left
\* unconsumed, which from_str drops
ParseEntry ==
    /\ res.op = "none"
    /\ res' = [op |-> "entry", out |-> TimeEntry_from_str(line, now, offset),
               rest |-> Match(parse_entry(line, now, offset),
                              LAMBDA e : e.rest, <<>>)]
    /\ UNCHANGED <<now, offset, self, line, dir, work>>

\* line.parse::<Range>()
ParseRange ==
    /\ res.op = "none"
    /\ res' = [op |-> "range", out |-> Range_from_str(line, now, offset)]
    /\ UNCHANGED <<now, offset, self, line, dir, work>>

NextParse == ParseEntry \/ ParseRange

SpecParse == InitParse /\ [][NextParse]_vars

\* C7: an entry is produced only when the whole line is consumed: a line
\* with text left after the tag list fails to parse.
C7_EntryConsumesLine ==
    (res.op = "entry" /\ IsOk(res.out)) => res.rest = <<>>

----------------------------------------------------------------------------
(* The loader as an action: a directory is drawn and loaded, with a filter *)
(* and without.                                                            *)

BlankLine == <<>>

\* inc 19700101T000000Z - 19700101T000001Z # a
\* inc 19700101T000000Z - 19700102T000000Z # "a a"
\* inc 19700101T000002Z # a a
LoadLines ==
    { <<"inc", SP, "D0", SP, "-", SP, "D1", SP, "#", SP, "a">>,
      <<"inc", SP, "D0", SP, "-", SP, "D3", SP, "#", SP, QUOTE, "a", SP, "a", QUOTE>>,
      <<"inc", SP, "D2", SP, "#", SP, "a", SP, "a">>,
      BlankLine }

\* the sequences of distinct names
RECURSIVE NameOrders(_)
NameOrders(S) ==
    {<<>>} \cup UNION {{<<x>> \o o : o \in NameOrders(S \ {x})} : x \in S}

\* where the lines of a directory of k files and n lines are cut into files:
\* file m ends behind line c[m]
Cuts(k, n) ==
    IF k = 0 THEN (IF n = 0 THEN {<<>>} ELSE {})
    ELSE {c \in [1..k -> 0..n] :
            /\ c[k] = n
            /\ \A m \in 1..(k - 1) : c[m] <= c[m + 1]}

\* the directory of the files named names, holding the lines of text cut at c
DirOf(names, text, c) ==
    [m \in 1..Len(names) |->
        File(names[m], SubSeq(text, (IF m = 1 THEN 0 ELSE c[m - 1]) + 1, c[m]))]

Filters ==
    { Some(MkRange(0, Some(SEC))), Some(MkRange(SEC, Some(2 * SEC))),
      Some(MkRange(2 * SEC, Some(DAY))), Some(MkRange(SEC, None)),
      Some(MkRange(DAY, None)) }

InitLoad ==
    /\ now = DAY
    /\ offset = 0
    /\ self = MkRange(0, None)
    /\ res = NoRes
    /\ line = <<>>
    /\ \E names \in NameOrders(FileNames), text \in Texts(LoadLines, MaxLines) :
          \E c \in Cuts(Len(names), Len(text)) : dir = DirOf(names, text, c)
    /\ work = Err

\* Work::load_range(dir, Some(filter)), and Work::load_all(dir) beside it
LoadRange ==
    /\ res.op = "none"
    /\ \E filter \in Filters :
        /\ work' = load_range(dir, filter, TRUE, now, offset)
        /\ res' = [op |-> "load_range", filter |-> filter,
                   all |-> load_all(dir, TRUE, now, offset)]
    /\ UNCHANGED <<now, offset, self, line, dir>>

\* Work::load_all(dir)
LoadAll ==
    /\ res.op = "none"
    /\ work' = load_all(dir, TRUE, now, offset)
    /\ res' = [op |-> "load_all"]
    /\ UNCHANGED <<now, offset, self, line, dir>>

\* a load during which read_dir, File::open or a read fails
LoadUnreadable ==
    /\ res.op = "none"
    /\ work' = load_all(dir, FALSE, now, offset)
    /\ res' = [op |-> "io_error"]
    /\ UNCHANGED <<now, offset, self, line, dir>>

NextLoad == LoadRange \/ LoadAll \/ LoadUnreadable

SpecLoad == InitLoad /\ [][NextLoad]_vars

Loaded == res.op \in {"load_all", "load_range"}

\* entries is ordered by range.from, latest first
SortedDescending(entries) ==
    \A i \in 1..(Len(entries) - 1) : entries[i].range.from >= entries[i + 1].range.from

RECURSIVE LinesIn(_)
\* the number of lines in the files of d that the loader reads
LinesIn(d) ==
    IF d = <<>> THEN 0
    ELSE (IF file_re_matches(Head(d).name) THEN Len(Head(d).lines) ELSE 0)
         + LinesIn(Tail(d))

\* C2: a successful load_all returns the entries ordered by from
\* descending with ids 1, 2, ..., N in that order, N being the number of
\* lines of the matching files; a successful load_range with a filter
\* returns them ordered by from descending too.
C2_SortedAndNumbered ==
    (Loaded /\ IsOk(work)) =>
        /\ SortedDescending(work[1].entries)
        /\ res.op = "load_all" =>
              /\ Len(work[1].entries) = LinesIn(dir)
              /\ \A i \in 1..Len(work[1].entries) : work[1].entries[i].id = i

\* load_all returned three entries of two files, the latest of them read last
C2_Witness ==
    /\ res.op = "load_all"
    /\ IsOk(work)
    /\ Len(work[1].entries) = 3
    /\ Len(dir) >= 2
    /\ file_re_matches(dir[1].name) /\ dir[1].lines # <<>>
    /\ file_re_matches(dir[Len(dir)].name) /\ dir[Len(dir)].lines # <<>>
    /\ LET last == dir[Len(dir)].lines
       IN  TimeEntry_from_str(last[Len(last)], now, offset)[1].range
             = work[1].entries[1].range
    /\ work[1].entries[1].range.from > work[1].entries[3].range.from

\* C3: load_range(dir, Some(F)) returns exactly the entries of
\* load_all(dir) whose range intersects F, in the same order and with the
\* ids they have in load_all(dir).
C3_FilterKeepsIds ==
    res.op = "load_range" =>
        /\ IsOk(work) <=> IsOk(res.all)
        /\ IsOk(res.all) =>
              work[1].entries =
                  SelectSeq(res.all[1].entries,
                            LAMBDA e : Range_intersection(e.range, res.filter[1]) # None)

\* the filter dropped the latest entry and kept a later-numbered one
C3_Witness ==
    /\ res.op = "load_range"
    /\ IsOk(work)
    /\ Len(res.all[1].entries) = 3
    /\ Len(work[1].entries) = 2
    /\ work[1].entries[1].id = 2
    /\ work[1].entries[2].id = 3

\* d without the blank lines of its files
StripBlank(d) ==
    [i \in 1..Len(d) |->
        File(d[i].name, SelectSeq(d[i].lines, LAMBDA l : l # BlankLine))]

\* every line of a matching file of d that is not blank parses
NonBlankLinesValid(d) ==
    \A i \in 1..Len(d) : file_re_matches(d[i].name) =>
        \A j \in 1..Len(d[i].lines) :
            d[i].lines[j] # BlankLine =>
                IsOk(TimeEntry_from_str(d[i].lines[j], now, offset))

\* C8: blank lines are ignored: when the non-blank lines of the matching
\* files are all valid, the load succeeds and returns the entries of the
\* non-blank lines.
C8_BlankLinesIgnored ==
    (res.op = "load_all" /\ NonBlankLinesValid(dir)) =>
        /\ IsOk(work)
        /\ work = load_all(StripBlank(dir), TRUE, now, offset)

----------------------------------------------------------------------------
(* Properties of the Range operations, stated for Spec *)

\* The end a Range is measured to: its to, or the clock reading n when open
EndOf(r, n) == IF r.to = None THEN n ELSE r.to[1]

\* The Ranges the last operation returned
Produced ==
    IF res.op = "new" THEN (IF IsOk(res.out) THEN {res.out[1]} ELSE {})
    ELSE IF res.op = "intersection"
    THEN {res.out[i] : i \in 1..Len(res.out)} \cup {res.rev[i] : i \in 1..Len(res.rev)}
    ELSE IF res.op \in {"split_at", "split"}
    THEN (IF IsOk(res.out) THEN {res.out[1][1], res.out[1][2]} ELSE {})
    ELSE {}

\* C1: Range::new(from, Some(to)) succeeds iff from + 1s <= to, and
\* Range::new(from, None) always succeeds, returning exactly (from, to);
\* so every closed Range that new, intersection, split_at or split returns
\* has from + 1s <= to.
C1_NewIffOneSecond ==
    /\ res.op = "new" =>
          /\ IsOk(res.out) <=> (res.to = None \/ res.from + SEC <= res.to[1])
          /\ IsOk(res.out) => res.out[1] = MkRange(res.from, res.to)
    /\ \A r \in Produced : r.to # None => r.from + SEC <= r.to[1]
    /\ self.to # None => self.from + SEC <= self.to[1]

\* new was called with to exactly one second after from, and succeeded
C1_Witness ==
    /\ res.op = "new"
    /\ res.to = Some(res.from + SEC)
    /\ IsOk(res.out)

\* C4: A.intersection(B) and B.intersection(A) are both None or both Some
\* of equal Ranges.
C4_IntersectionCommutes ==
    res.op = "intersection" => res.out = res.rev

\* an open Range met a closed one that starts later, and they intersect
C4_Witness ==
    /\ res.op = "intersection"
    /\ is_open(self) /\ ~is_open(res.other)
    /\ self.from < res.other.from
    /\ IsSome(res.out)

\* the later of the two starts, and the earliest end that is present
LaterFrom(a, b) == IF a.from >= b.from THEN a.from ELSE b.from
EarlierTo(a, b) ==
    LET ends == {r.to[1] : r \in {x \in {a, b} : x.to # None}}
    IN  IF ends = {} THEN None
        ELSE Some(CHOOSE t \in ends : \A u \in ends : t <= u)

\* C11: A.intersection(B) is Some(Range{from: f, to: t}) with f the later
\* from and t the earliest end present, when t is absent or f + 1s <= t,
\* and None otherwise; so two closed Ranges sharing only a boundary
\* instant give None, and an open Range meets itself in itself.
C11_IntersectionReference ==
    res.op = "intersection" =>
        LET f == LaterFrom(self, res.other)
            t == EarlierTo(self, res.other)
        IN  /\ res.out = (IF t = None \/ f + SEC <= t[1]
                          THEN Some(MkRange(f, t)) ELSE None)
            /\ (~is_open(self) /\ self.to = Some(res.other.from)) => res.out = None
            /\ (is_open(self) /\ res.other = self) => res.out = Some(self)

\* two closed Ranges that share only a boundary instant were intersected
C11_Witness ==
    /\ res.op = "intersection"
    /\ ~is_open(self) /\ ~is_open(res.other)
    /\ self.to = Some(res.other.from)
    /\ res.out = None

\* C5: split_at(t) succeeds only if from + 1s <= t <= end - 1s, where end
\* is to for a closed Range and now for an open one.
C5_SplitAtWithinBounds ==
    (res.op = "split_at" /\ IsOk(res.out)) =>
        /\ self.from + SEC <= res.date
        /\ res.date <= EndOf(self, now) - SEC

\* C6: split() succeeds iff the duration is at least 2 seconds, and then
\* the halves are (from, from + duration/2) and (from + duration/2, to),
\* the second one open when the Range is open.
C6_SplitHalves ==
    res.op = "split" =>
        LET d == EndOf(self, res.now) - self.from
            mid == self.from + (d \div 2)
        IN  /\ IsOk(res.out) <=> d >= 2 * SEC
            /\ IsOk(res.out) =>
                  /\ res.out[1][1] = MkRange(self.from, Some(mid))
                  /\ res.out[1][2] = MkRange(mid, self.to)

\* an open Range of odd length was split while the clock advanced between
\* the two readings of it
C6_Witness ==
    /\ res.op = "split"
    /\ IsOk(res.out)
    /\ is_open(self)
    /\ (res.now - self.from) % 2 = 1
    /\ now > res.now

\* C10: days() returns at least one element, the first being from, and its
\* elements are exactly the from + k days that are <= end.
C10_DaysNonEmpty ==
    res.op = "days" =>
        LET end == EndOf(self, now)
        IN  /\ Len(res.out) >= 1
            /\ res.out[1] = self.from
            /\ \A i \in 1..Len(res.out) : res.out[i] = self.from + (i - 1) * DAY
            /\ \A k \in 0..(MaxDays + 1) :
                  self.from + k * DAY <= end => k + 1 <= Len(res.out)
            /\ \A i \in 1..Len(res.out) : res.out[i] <= end

====
